---- MODULE Spec2Model ----
(***************************************************************************)
(* TNest_GUI: a model of the two Streamlit tools of the repository.        *)
(*                                                                         *)
(*   ResSim/TempoNest_SIM.py   the residual simulator (Spec, SpecExport,   *)
(*                             SpecCombine)                                *)
(*   JSON/TempoNest_JSON.py    the configuration builder, session version  *)
(*   TempoNest_JSON.py         the configuration builder, file version     *)
(*                             (both: SpecJSON)                            *)
(*                                                                         *)
(* A Streamlit script is executed from its first to its last line on every *)
(* user interaction.  st.session_state and the working directory are the   *)
(* only state that survives from one execution to the next.                *)
(*                                                                         *)
(* Fixed-point encodings (TLA+ has no floating point):                     *)
(*   epochs        hundredths of a day (MJD * 100)                         *)
(*   S/N ratios    millionths          (1e-3 is 1000)                      *)
(*   uncertainties thousandths         (1000.0 is 1000000)                 *)
(*   slider values with one decimal: tenths (0.7 is 7)                     *)
(* A value of a wider type than float64 (libstempo returns numpy           *)
(* longdouble epochs and residuals) is float64-representable when it is    *)
(* even; see astype_float64.                                               *)
(***************************************************************************)
EXTENDS Integers, Sequences, FiniteSets, TLC, Bags

VARIABLES
    \* ---- residual simulator -------------------------------------------
    fs,            \* working directory: the set of file names <<root, ext>>
    simulator,     \* st.session_state.simulator: [exists, psr_combined]
    pc,            \* position of the simulator script
    form,          \* widget values read by the current execution
    run,           \* locals of the Run Simulation branch
    archive,       \* members of the zip file being written by this run
    page,          \* what the current execution rendered
    outcome,       \* how the last Run Simulation ended: none/ok/exception
    psr_at_start,  \* history: simulator.psr_combined when the run started
    \* ---- combine_residuals on arbitrary inputs -------------------------
    data_list,     \* the argument
    combined,      \* the results of the calls made on it
    \* ---- simulate_residuals_freq on the whole range of the sliders -----
    synth_args,    \* the arguments
    synth_data,    \* the returned frame, once the call was made
    \* ---- configuration builder -----------------------------------------
    entry,         \* which script is deployed: "JSON" or "root"
    widgets,       \* widget state of the form
    session_json,  \* st.session_state.generated_json (or absent)
    disk,          \* config.json in the working directory (or absent)
    shown,         \* what the last execution rendered
    clicks,        \* number of interactions so far
    last_config    \* history: the form and the config dict of the last Generate

simVars  == <<fs, simulator, pc, form, run, archive, page, outcome, psr_at_start>>
combVars == <<data_list, combined, synth_args, synth_data>>
jsonVars == <<entry, widgets, session_json, disk, shown, clicks, last_config>>
vars     == <<simVars, combVars, jsonVars>>

----------------------------------------------------------------------------
(* Bounds of the model *)

MaxYears       == 1   \* simulate_residuals_freq is called for 1..MaxYears years
NumSeeds       == 2   \* states of the random number generators
MaxSeries      == 2   \* frames in an argument of combine_residuals
MaxTotalRows   == 2   \* rows in an argument of combine_residuals
MaxElements    == 2   \* the largest "Number of Elements" entered
MaxClicks      == 4   \* interactions followed after the page has loaded

----------------------------------------------------------------------------
(* Generic helpers *)

Range(s) == {s[i] : i \in 1..Len(s)}

RECURSIVE SumLen(_)
SumLen(ss) == IF ss = <<>> THEN 0 ELSE Len(Head(ss)) + SumLen(Tail(ss))

SeqBag(s) == [r \in Range(s) |-> Cardinality({i \in 1..Len(s) : s[i] = r})]

Min(a, b) == IF a < b THEN a ELSE b

----------------------------------------------------------------------------
(* numpy / pandas *)

\* .astype(np.float64): rounds to a representable value; monotone
astype_float64(v) == 2 * ((v + 1) \div 2)

\* (mutant) a floor of 1e-6 whatever a_min is
np_clip_low_floor(x, a_min) == IF x < 1 THEN 1 ELSE x

\* np.clip(x, a_min, None)
np_clip(x, a_min) == IF x < a_min THEN a_min ELSE x

\* np.linspace(start, stop, num): num evenly spaced points, both ends included
np_linspace(start, stop, num) ==
    [i \in 1..num |->
        IF num = 1 THEN start ELSE start + ((i - 1) * (stop - start)) \div (num - 1)]

\* np.random.normal(loc, 5.0, size)[i], in millionths; the generator state
\* is the seed.  The draws include values at and below zero and one below
\* the floor of np.clip.
np_random_normal(loc, seed, i) ==
    LET k == (3 * seed + i) % 5
    IN  CASE k = 0 -> loc * 1000000
          [] k = 1 -> loc * 1000000 - 5000000
          [] k = 2 -> 0
          [] k = 3 -> 0 - 2500000
          [] OTHER -> 100

----------------------------------------------------------------------------
(* libstempo (external library, reached through the calls of the script)   *)

None == [kind |-> "None"]

ObjIds == {1, 2}

\* an object the allocator has not handed to the session right now
FreshId(retained) ==
    CHOOSE i \in ObjIds : retained.kind = "None" \/ retained.id # i

\* lsim.fakepulsar(parfile, obstimes, toaerr, freq): one TOA per obstime,
\* with whitened residuals (in 1e-7 s) drawn by the library
fakepulsar(id, obstimes, toaerr, freq, seed) ==
    [kind     |-> "psr",
     id       |-> id,
     stoas    |-> obstimes,
     toaerrs  |-> toaerr,
     freqs    |-> freq,
     white    |-> [i \in 1..Len(obstimes) |-> ((seed + 2 * i) % 5) - 2],
     noise    |-> <<>>]

\* psr.toas(): barycentred arrival times, numpy longdouble
toas(psr) == [i \in 1..Len(psr.stoas) |-> psr.stoas[i] + ((i + 1) % 2)]

\* the delay one injected process adds to TOA i (in 1e-7 s)
Delay(psr, n, i) ==
    LET g == (((n.amp + 19) * i + n.index) % 7) - 3
    IN  CASE n.step = "red"  -> g
          [] n.step = "dm"   -> (g * 1400 * 1400) \div (psr.freqs[i] * psr.freqs[i])
          [] OTHER           -> (n.efac * ((i % 3) - 1) * psr.toaerrs[i]) \div 100000

RECURSIVE Delays(_, _, _)
Delays(psr, ns, i) ==
    IF ns = <<>> THEN 0 ELSE Delay(psr, Head(ns), i) + Delays(psr, Tail(ns), i)

\* psr.residuals()
residuals(psr) ==
    [i \in 1..Len(psr.stoas) |-> psr.white[i] + Delays(psr, psr.noise, i)]

\* lsim.add_rednoise(psr, A, gamma)
add_rednoise(psr, A, gamma) ==
    [psr EXCEPT !.noise = Append(@, [step |-> "red", amp |-> A, index |-> gamma])]

\* lsim.add_dm(psr, A, gamma)
add_dm(psr, A, gamma) ==
    [psr EXCEPT !.noise = Append(@, [step |-> "dm", amp |-> A, index |-> gamma])]

\* lsim.add_efac(psr, efac)
add_efac(psr, efac) ==
    [psr EXCEPT !.noise = Append(@, [step |-> "efac", efac |-> efac])]

----------------------------------------------------------------------------
(* class ResidualSimulator *)

start_mjd == 56658

\* psr.residuals() / 1e-6: seconds to microseconds (1e-7 s to 1e-2 us)
to_microseconds(r) == r * 10

\* the number of TOAs: int((end_mjd - start_mjd) / X_days)
n_toas_of(X_days, totaltime) ==
    LET end_mjd == start_mjd * 100 + 36525 * totaltime
    IN  (end_mjd - start_mjd * 100) \div (X_days * 100)

\* 1.0 / sn_ratios, a float64
toa_error_of(sn) == astype_float64(1000000000 \div sn)

simulate_residuals_freq(X_days, freq, totaltime, avg_sn, seed) ==
    LET end_mjd    == start_mjd * 100 + 36525 * totaltime
        n_toas     == n_toas_of(X_days, totaltime)
        mjds       == np_linspace(start_mjd * 100, end_mjd, n_toas)
        freqs      == [i \in 1..n_toas |-> freq]
        sn_ratios  == [i \in 1..n_toas |->
                          np_clip(np_random_normal(avg_sn, seed, i), 1000)]
        toa_errors == [i \in 1..n_toas |-> toa_error_of(sn_ratios[i])]
        psr        == fakepulsar(0, mjds, toa_errors, freqs, seed)
        psr_toas   == toas(psr)
        psr_res    == residuals(psr)
    IN  [i \in 1..n_toas |->
            [Date        |-> psr_toas[i],
             Residual    |-> to_microseconds(psr_res[i]),
             Uncertainty |-> psr.toaerrs[i],
             Frequency   |-> psr.freqs[i]]]

\* the for loop of combine_residuals: every column of every frame to float64
coerce(df) ==
    [i \in 1..Len(df) |->
        [Date        |-> astype_float64(df[i].Date),
         Residual    |-> astype_float64(df[i].Residual),
         Uncertainty |-> astype_float64(df[i].Uncertainty),
         Frequency   |-> astype_float64(df[i].Frequency)]]

\* pd.concat(data_list, ignore_index=True)
RECURSIVE pd_concat(_)
pd_concat(dfs) == IF dfs = <<>> THEN <<>> ELSE Head(dfs) \o pd_concat(Tail(dfs))

\* (mutant) the order of sort_values(by=['Date'])
KeyLessDateOnly(a, b) == a.Date < b.Date

\* the order of sort_values(by=['Date', 'Frequency'])
KeyLess(a, b) ==
    \/ a.Date < b.Date
    \/ a.Date = b.Date /\ a.Frequency < b.Frequency

\* DataFrame.sort_values(by=['Date', 'Frequency']).reset_index(drop=True):
\* pandas sorts on several columns with a stable lexicographic sort, so a
\* row goes behind the rows with a smaller key and behind the rows with its
\* own key that stood before it
sort_values(df) ==
    LET n    == Len(df)
        rank == [i \in 1..n |->
                    Cardinality({j \in 1..n :
                        \/ KeyLess(df[j], df[i])
                        \/ j <= i /\ ~KeyLess(df[i], df[j])})]
    IN  [k \in 1..n |-> df[CHOOSE i \in 1..n : rank[i] = k]]

\* pd.concat raises ValueError("No objects to concatenate") on an empty list
pd_concat_raises(dfs) == dfs = <<>>

\* the result of a call: the exception, or the returned frame
combine_residuals(dfs) ==
    IF pd_concat_raises(dfs)
    THEN [raised |-> TRUE, data |-> <<>>]
    ELSE [raised |-> FALSE,
          data   |-> sort_values(pd_concat([k \in 1..Len(dfs) |-> coerce(dfs[k])]))]

\* the frames of data_list after the call: they are coerced in place
coerced_in_place(dfs) == [k \in 1..Len(dfs) |-> coerce(dfs[k])]

\* ResidualSimulator.plot_residuals_by_frequency(data): one errorbar series
\* per frequency, in ascending frequency, markers cycling through 8 shapes
markers == <<"o", "s", "^", "D", "v", "*", "P", "X">>

RECURSIVE SortedFreqs(_)
SortedFreqs(S) ==
    IF S = {} THEN <<>>
    ELSE LET m == CHOOSE x \in S : \A y \in S : x <= y
         IN  <<m>> \o SortedFreqs(S \ {m})

plot_residuals_by_frequency(data) ==
    LET unique_freqs == SortedFreqs({data[i].Frequency : i \in 1..Len(data)})
    IN  [i \in 1..Len(unique_freqs) |->
            [label  |-> unique_freqs[i],
             fmt    |-> markers[((i - 1) % Len(markers)) + 1],
             points |-> Cardinality({j \in 1..Len(data) :
                                       data[j].Frequency = unique_freqs[i]})]]

----------------------------------------------------------------------------
(* The simulator script: widgets *)

cadence_max == 30

frequency_options == <<400, 600, 800, 1400, 1600>>

\* the options a run of the model selects from: the two default ones
OfferedFreqs == {frequency_options[3], frequency_options[4]}

\* st.sidebar.multiselect returns the selected options in selection order
FreqLists ==
    {s \in UNION {[1..n -> OfferedFreqs] : n \in 0..Cardinality(OfferedFreqs)} :
        \A i, j \in 1..Len(s) : i # j => s[i] # s[j]}

Forms ==
    [cadence_days  : {cadence_max},
     frequencies   : FreqLists,
     total_time    : {1},
     avg_sn        : {20},
     efec_value    : {12},
     red_noise     : {<<0 - 12, 30>>},
     dm_noise      : {<<0 - 14, 40>>},
     par_file_name : {<<"temponest_sim", ".par">>},
     tim_file_name : {<<"temponest_sim", ".tim">>}]

NoForm == [cadence_days |-> 0]

\* str(uuid.uuid4())[:4]
Uids == {"1a2b", "c3d4"}

----------------------------------------------------------------------------
(* The simulator script: files *)

\* A file is <<root, extension>> when its name has no directory part, so
\* that it lies in the working directory, and <<root, extension, directory>>
\* when the name is a path into another directory.
fake_par == <<"fake", ".par">>

cleanup_suffixes == {".zip", ".par", ".tim", ".txt", ".png"}

\* os.listdir(): the entries of the working directory
os_listdir(files) == {f \in files : Len(f) = 2}

\* lines 124-127: the loop over os.listdir()
startup_cleanup(files) ==
    files \ {f \in os_listdir(files) : f[2] \in cleanup_suffixes /\ f # fake_par}

\* os.path.splitext(name)[0]: the name without its extension
splitext0(name) == name[1]

\* f"{os.path.splitext(name)[0]}_{uid}{suffix}": a directory part of the
\* name typed into the text input stays in front
with_uid(name, uid, suffix) ==
    [name EXCEPT ![1] = splitext0(name) \o "_" \o uid, ![2] = suffix]

par_file_with_uid(f, uid)  == with_uid(f.par_file_name, uid, ".par")
tim_file_with_uid(f, uid)  == with_uid(f.tim_file_name, uid, ".tim")

\* the directories other than the working directory that exist
directories == {".."}

\* a file can be created where its directory exists
can_create(f) == Len(f) = 2 \/ f[3] \in directories
residual_plot_file(uid)    == <<"residual_plot_" \o uid, ".png">>
summary_file_name(uid)     == <<"simulation_summary_" \o uid, ".txt">>
zip_file_name(uid)         == <<"temponest_simulation_" \o uid, ".zip">>

\* the files of the run with this uid, the archive included
RunFiles(f, uid) ==
    {par_file_with_uid(f, uid), tim_file_with_uid(f, uid),
     residual_plot_file(uid), summary_file_name(uid), zip_file_name(uid)}

\* zipf.write(name) for each name in turn: stops at the first missing file
RECURSIVE zip_write(_, _)
zip_write(names, files) ==
    IF names = <<>> \/ Head(names) \notin files THEN <<>>
    ELSE <<Head(names)>> \o zip_write(Tail(names), files)

----------------------------------------------------------------------------
(* The simulator script: state *)

NoRun == [uid |-> ""]

BlankPage == [error |-> FALSE, plot |-> FALSE, download |-> <<>>]

NoOutcome == [status |-> "none"]

\* lines 152-155
session_simulator(sim) ==
    IF sim.exists THEN sim ELSE [exists |-> TRUE, psr_combined |-> None]

CombIdle == data_list = <<>> /\ combined = <<>> /\ synth_args = <<>> /\ synth_data = <<>>
JsonIdle ==
    /\ entry = "none"
    /\ widgets = <<>>
    /\ session_json = <<>>
    /\ disk = <<>>
    /\ shown = <<>>
    /\ clicks = 0
    /\ last_config = <<>>

InitSim ==
    /\ \E extra \in SUBSET {<<"README", ".md">>, <<"old_run", ".zip">>} :
           fs = {fake_par} \cup extra
    /\ simulator = [exists |-> FALSE, psr_combined |-> None]
    /\ pc = "idle"
    /\ form = NoForm
    /\ run = NoRun
    /\ archive = <<>>
    /\ page = BlankPage
    /\ outcome = NoOutcome
    /\ psr_at_start = None

Init == InitSim /\ CombIdle /\ JsonIdle

\* the script ends or is aborted: its locals are gone
Finish(status) ==
    /\ pc' = "idle"
    /\ outcome' = [status |-> status, uid |-> run.uid, files |-> RunFiles(form, run.uid)]
    /\ form' = NoForm
    /\ run' = NoRun

\* an execution in which the Run Simulation button is not pressed
Interact ==
    /\ pc = "idle"
    /\ fs' = startup_cleanup(fs)
    /\ simulator' = session_simulator(simulator)
    /\ page' = BlankPage
    /\ UNCHANGED <<pc, form, run, archive, outcome, psr_at_start>>

\* lines 124-170: the button is pressed with the widgets set as in a form
\* of F
Run(F) ==
    /\ pc = "idle"
    /\ \E f \in F, u \in Uids, sd \in 1..NumSeeds :
        /\ form' = f
        /\ run' = [uid |-> u, seed |-> sd, all_data |-> <<>>,
                   combined_data |-> <<>>, simulated_data |-> <<>>, fig |-> <<>>]
    /\ fs' = startup_cleanup(fs)
    /\ simulator' = session_simulator(simulator)
    /\ psr_at_start' = simulator'.psr_combined
    /\ page' = BlankPage
    /\ archive' = <<>>
    /\ outcome' = [status |-> "running"]
    /\ pc' = "simulate_residuals"

RunSimulation == Run(Forms)

\* lines 72-74: one turn of the loop over observing_freqs
SimulateFreq ==
    /\ pc = "simulate_residuals"
    /\ Len(run.all_data) < Len(form.frequencies)
    /\ fake_par \in fs
    /\ LET k == Len(run.all_data) + 1
           freq_data == simulate_residuals_freq(form.cadence_days, form.frequencies[k],
                                                form.total_time, form.avg_sn, run.seed + k)
       IN  run' = [run EXCEPT !.all_data = Append(@, freq_data)]
    /\ UNCHANGED <<fs, simulator, pc, form, archive, page, outcome, psr_at_start>>

\* line 76
Combine ==
    /\ pc = "simulate_residuals"
    /\ Len(run.all_data) = Len(form.frequencies)
    /\ IF combine_residuals(run.all_data).raised
       THEN Finish("exception")
       ELSE /\ run' = [run EXCEPT
                         !.all_data = coerced_in_place(@),
                         !.combined_data = combine_residuals(run.all_data).data]
            /\ pc' = "fakepulsar"
            /\ UNCHANGED <<form, outcome>>
    /\ UNCHANGED <<fs, simulator, archive, page, psr_at_start>>

Column(df, c) == [i \in 1..Len(df) |-> df[i][c]]

\* lines 78-79
Resynthesize ==
    /\ pc = "fakepulsar"
    /\ fake_par \in fs
    /\ simulator' = [simulator EXCEPT !.psr_combined =
           fakepulsar(FreshId(simulator.psr_combined),
                      Column(run.combined_data, "Date"),
                      Column(run.combined_data, "Uncertainty"),
                      Column(run.combined_data, "Frequency"),
                      run.seed)]
    /\ pc' = "inject"
    /\ UNCHANGED <<fs, form, run, archive, page, outcome, psr_at_start>>

\* (mutant) the noise parameters handed to the wrong library calls
inject_swapped(psr_combined, dm_noise_params, red_noise_params, efac_value, calls) ==
    LET p1 == add_rednoise(psr_combined, dm_noise_params[1], dm_noise_params[2])
        p2 == add_dm(p1, red_noise_params[1], red_noise_params[2])
        p3 == add_efac(p2, efac_value)
    IN  CASE calls = 0 -> psr_combined
          [] calls = 1 -> p1
          [] calls = 2 -> p2
          [] OTHER     -> p3

\* lines 62-68, with the number of library calls that return: a call that
\* raises leaves the object as the calls before it made it
inject_dm_noise_on_combined(psr_combined, dm_noise_params, red_noise_params, efac_value, calls) ==
    LET p1 == add_rednoise(psr_combined, red_noise_params[1], red_noise_params[2])
        p2 == add_dm(p1, dm_noise_params[1], dm_noise_params[2])
        p3 == add_efac(p2, efac_value)
    IN  CASE calls = 0 -> psr_combined
          [] calls = 1 -> p1
          [] calls = 2 -> p2
          [] OTHER     -> p3

\* line 81: the call of inject_dm_noise_on_combined in simulate_residuals
\* (the amplitudes are passed as 10 ** log; the model carries the logarithm)
call_inject(psr, f, calls) ==
    inject_dm_noise_on_combined(psr, f.dm_noise, f.red_noise, f.efec_value, calls)

\* lines 83-84: the Residual and Uncertainty columns are overwritten
overwrite_columns(combined_data, psr) ==
    LET combined_residuals == residuals(psr)
        combined_toaerrs   == psr.toaerrs
    IN  [i \in 1..Len(combined_data) |->
            [combined_data[i] EXCEPT
                !.Residual    = to_microseconds(combined_residuals[i]),
                !.Uncertainty = combined_toaerrs[i]]]

\* lines 81-86
InjectNoise ==
    /\ pc = "inject"
    /\ \E calls \in 0..3 :
        /\ simulator' = [simulator EXCEPT
                            !.psr_combined = call_inject(@, form, calls)]
        /\ IF calls < 3
           THEN Finish("exception")
           ELSE /\ run' = [run EXCEPT !.simulated_data =
                              overwrite_columns(run.combined_data,
                                                simulator'.psr_combined)]
                /\ pc' = "plot"
                /\ UNCHANGED <<form, outcome>>
    /\ UNCHANGED <<fs, archive, page, psr_at_start>>

\* lines 181-184
Plot ==
    /\ pc = "plot"
    /\ run' = [run EXCEPT !.fig = plot_residuals_by_frequency(run.simulated_data)]
    /\ page' = [page EXCEPT !.plot = TRUE]
    /\ pc' = "savefig"
    /\ UNCHANGED <<fs, simulator, form, archive, outcome, psr_at_start>>

\* lines 186-190
SaveFig ==
    /\ pc = "savefig"
    /\ fs' = fs \cup {residual_plot_file(run.uid)}
    /\ pc' = "savepar"
    /\ UNCHANGED <<simulator, form, run, archive, page, outcome, psr_at_start>>

\* lines 192-197: savepar, then savetim. A file whose directory does not
\* exist is not written; the library may raise there or not (Raise).
SaveParTim ==
    /\ pc = "savepar"
    /\ IF simulator.psr_combined # None
       THEN /\ fs' = fs \cup {f \in {par_file_with_uid(form, run.uid),
                                      tim_file_with_uid(form, run.uid)} :
                                  can_create(f)}
            /\ page' = page
       ELSE /\ page' = [page EXCEPT !.error = TRUE]
            /\ fs' = fs
    /\ pc' = "summary"
    /\ UNCHANGED <<simulator, form, run, archive, outcome, psr_at_start>>

\* lines 199-210
WriteSummary ==
    /\ pc = "summary"
    /\ fs' = fs \cup {summary_file_name(run.uid)}
    /\ pc' = "zip"
    /\ UNCHANGED <<simulator, form, run, archive, page, outcome, psr_at_start>>

\* lines 212-217: ZipFile(name, 'w') creates the archive, then four writes;
\* a missing member raises FileNotFoundError
WriteZip ==
    /\ pc = "zip"
    /\ LET members == <<par_file_with_uid(form, run.uid), tim_file_with_uid(form, run.uid),
                        residual_plot_file(run.uid), summary_file_name(run.uid)>>
           written == zip_write(members, fs)
       IN  /\ fs' = fs \cup {zip_file_name(run.uid)}
           /\ archive' = written
           /\ IF written = members
              THEN pc' = "download" /\ UNCHANGED <<form, run, outcome>>
              ELSE Finish("exception")
    /\ UNCHANGED <<simulator, page, psr_at_start>>

\* lines 219-225
Download ==
    /\ pc = "download"
    /\ page' = [page EXCEPT !.download =
                   <<[file_name |-> zip_file_name(run.uid), data |-> archive]>>]
    /\ pc' = "cleanup"
    /\ UNCHANGED <<fs, simulator, form, run, archive, outcome, psr_at_start>>

\* (mutant) the cleanup that forgets the plot image
os_remove_all_keeps_plot(names, files) ==
    [files |-> files \ {n \in Range(names) : n[2] # ".png"}, raised |-> FALSE]

\* os.remove(name) for each name in turn: raises on the first missing file
RECURSIVE os_remove_all(_, _)
os_remove_all(names, files) ==
    IF names = <<>> THEN [files |-> files, raised |-> FALSE]
    ELSE IF Head(names) \notin files THEN [files |-> files, raised |-> TRUE]
    ELSE os_remove_all(Tail(names), files \ {Head(names)})

\* lines 227-232
Cleanup ==
    /\ pc = "cleanup"
    /\ LET r == os_remove_all(<<par_file_with_uid(form, run.uid),
                                tim_file_with_uid(form, run.uid),
                                residual_plot_file(run.uid),
                                summary_file_name(run.uid),
                                zip_file_name(run.uid)>>, fs)
       IN  /\ fs' = r.files
           /\ Finish(IF r.raised THEN "exception" ELSE "ok")
    /\ UNCHANGED <<simulator, archive, page, psr_at_start>>

\* an external call raises (libstempo, matplotlib or the file system): the
\* exception is not caught and aborts the execution
RaisePcs == {"simulate_residuals", "fakepulsar", "savefig", "savepar",
             "summary", "zip", "download", "cleanup"}

Raise ==
    /\ pc \in RaisePcs
    /\ pc = "simulate_residuals" => Len(run.all_data) < Len(form.frequencies)
    /\ Finish("exception")
    /\ UNCHANGED <<fs, simulator, archive, page, psr_at_start>>

NextSim ==
    \/ Interact
    \/ RunSimulation
    \/ SimulateFreq
    \/ Combine
    \/ Resynthesize
    \/ InjectNoise
    \/ Plot
    \/ SaveFig
    \/ SaveParTim
    \/ WriteSummary
    \/ WriteZip
    \/ Download
    \/ Cleanup
    \/ Raise

Next == NextSim /\ UNCHANGED <<combVars, jsonVars>>

Spec == Init /\ [][Next]_vars

----------------------------------------------------------------------------
(* The export block (lines 186-232) taken on its own: it is entered with   *)
(* the locals of a finished simulation and a session simulator that holds  *)
(* a pulsar object or, as after ResidualSimulator(), None.                 *)

SimOff ==
    /\ fs = {}
    /\ simulator = [exists |-> FALSE, psr_combined |-> None]
    /\ pc = "off"
    /\ form = NoForm
    /\ run = NoRun
    /\ archive = <<>>
    /\ page = BlankPage
    /\ outcome = NoOutcome
    /\ psr_at_start = None

InitExport ==
    /\ fs = {fake_par}
    /\ \E f \in Forms, u \in Uids, sd \in 1..NumSeeds, have \in BOOLEAN :
        LET all  == [k \in 1..Len(f.frequencies) |->
                        simulate_residuals_freq(f.cadence_days, f.frequencies[k],
                                                f.total_time, f.avg_sn, sd + k)]
            comb == combine_residuals(all)
            psr  == call_inject(fakepulsar(1, Column(comb.data, "Date"),
                                           Column(comb.data, "Uncertainty"),
                                           Column(comb.data, "Frequency"), sd), f, 3)
            data == overwrite_columns(comb.data, psr)
        IN  /\ ~comb.raised
            /\ form = f
            /\ run = [uid |-> u, seed |-> sd, all_data |-> coerced_in_place(all),
                      combined_data |-> comb.data, simulated_data |-> data,
                      fig |-> plot_residuals_by_frequency(data)]
            /\ simulator = [exists |-> TRUE,
                            psr_combined |-> IF have THEN psr ELSE None]
            /\ psr_at_start = simulator.psr_combined
    /\ pc = "savefig"
    /\ archive = <<>>
    /\ page = [BlankPage EXCEPT !.plot = TRUE]
    /\ outcome = [status |-> "running"]
    /\ CombIdle
    /\ JsonIdle

SpecExport == InitExport /\ [][Next]_vars

ExportPcs == {"savepar", "summary", "zip", "download", "cleanup"}

\* In the script as a whole the export block is entered only behind
\* simulate_residuals, which has assigned psr_combined (checked under Spec).
ExportHasPulsar == pc \in ExportPcs \cup {"savefig"} => simulator.psr_combined # None

C2_OnlyArchiveLeft ==
    (pc = "idle" /\ outcome.status = "ok") =>
        fs \cap outcome.files = {zip_file_name(outcome.uid)}

\* C2 as amended: after a run has completed its export no file of the run is
\* left in the working directory, the archive included; the archive had been
\* written with the four loose files as members and handed to the download
\* button before it was removed.
C2_NoRunFileLeft ==
    (pc = "idle" /\ outcome.status = "ok") =>
        /\ fs \cap outcome.files = {}
        /\ Len(archive) = 4
        /\ Range(archive) = outcome.files \ {zip_file_name(outcome.uid)}
        /\ page.download # <<>> =>
              /\ page.download[1].file_name = zip_file_name(outcome.uid)
              /\ page.download[1].data = archive

C2_Witness ==
    /\ pc = "idle"
    /\ outcome.status = "ok"
    /\ page.download # <<>>

\* C3: a Run Simulation that fails leaves in the session the pulsar object
\* the session held when the run started.
C3_FailedRunKeepsPulsar ==
    outcome.status = "exception" => simulator.psr_combined = psr_at_start

AfterSimulate == {"plot", "savefig", "savepar", "summary", "zip", "download", "cleanup"}

\* C10: in a run whose simulate_residuals has returned, the combined pulsar
\* object was made from the merged series and has received red noise with
\* the red-noise parameters, then DM noise with the DM parameters, then
\* EFAC, each once; the returned series has the rows of the merged series
\* (as many as the per-frequency series together), with the same epochs and
\* frequencies, and the residuals and uncertainties of the pulsar object.
C10_InjectionOrder ==
    pc \in AfterSimulate =>
        LET psr == simulator.psr_combined
            out == run.simulated_data
            mrg == run.combined_data
        IN  /\ psr.stoas = Column(mrg, "Date")
            /\ psr.freqs = Column(mrg, "Frequency")
            /\ psr.noise =
                 <<[step |-> "red", amp |-> form.red_noise[1], index |-> form.red_noise[2]],
                   [step |-> "dm", amp |-> form.dm_noise[1], index |-> form.dm_noise[2]],
                   [step |-> "efac", efac |-> form.efec_value]>>
            /\ Len(out) = SumLen(run.all_data)
            /\ Len(out) = Len(mrg)
            /\ \A i \in 1..Len(out) :
                 /\ out[i].Date = mrg[i].Date
                 /\ out[i].Frequency = mrg[i].Frequency
                 /\ out[i].Residual = to_microseconds(residuals(psr)[i])
                 /\ out[i].Uncertainty = psr.toaerrs[i]

C10_Witness ==
    /\ pc = "plot"
    /\ Len(form.frequencies) = 2
    /\ \E i \in 1..Len(run.simulated_data) :
          run.simulated_data[i].Residual # run.combined_data[i].Residual

----------------------------------------------------------------------------
(* The simulator script with the names typed into the two text inputs      *)
(* (lines 149-150): the defaults, the name of the template parameter file, *)
(* and paths into the parent directory and into a directory that does not  *)
(* exist.                                                                  *)

FileNames ==
    {[par |-> <<"temponest_sim", ".par">>,       tim |-> <<"temponest_sim", ".tim">>],
     [par |-> <<"fake", ".par">>,                tim |-> <<"fake", ".tim">>],
     [par |-> <<"temponest_sim", ".par", "..">>, tim |-> <<"temponest_sim", ".tim">>],
     [par |-> <<"temponest_sim", ".par", "..">>, tim |-> <<"temponest_sim", ".tim", "nodir">>]}

NamedForms ==
    {[f EXCEPT !.par_file_name = n.par, !.tim_file_name = n.tim] :
        f \in {g \in Forms : g.frequencies \in {<<>>, <<1400, 800>>}},
        n \in FileNames}

RunSimulationNamed == Run(NamedForms)

NextFiles ==
    /\ \/ Interact
       \/ RunSimulationNamed
       \/ SimulateFreq
       \/ Combine
       \/ Resynthesize
       \/ InjectNoise
       \/ Plot
       \/ SaveFig
       \/ SaveParTim
       \/ WriteSummary
       \/ WriteZip
       \/ Download
       \/ Cleanup
       \/ Raise
    /\ UNCHANGED <<combVars, jsonVars>>

SpecFiles == Init /\ [][NextFiles]_vars

\* a name the startup loop would delete
CleanupName(f) == f[2] \in cleanup_suffixes /\ f # fake_par

\* an execution of the script is under way behind the startup loop
Executing == pc \notin {"idle", "off"}

\* Every execution starts from the idle script, and whatever step is taken
\* from there has deleted the working directory's files with one of the
\* five suffixes, fake.par excepted (holds).
StartupCleanupOfWorkingDirectory ==
    [][pc = "idle" => \A f \in os_listdir(fs) : CleanupName(f) => f \notin fs']_vars

\* fake.par is there in every state (holds).
FakeParNeverDeleted == fake_par \in fs

\* During a run the working directory holds no file with one of the five
\* suffixes besides fake.par and the files of this run (holds).
NoEarlierArtifactInWorkingDirectory ==
    Executing =>
        \A f \in os_listdir(fs) : CleanupName(f) => f \in RunFiles(form, run.uid)

\* C11: every execution of the script first deletes every file of the
\* working directory that ends in .zip, .par, .tim, .txt or .png, except
\* fake.par; fake.par is never deleted; and while a run is under way no
\* artifact file of an earlier run exists (the files with one of the five
\* suffixes are fake.par and the files of this run).
C11_StartupCleanup ==
    /\ StartupCleanupOfWorkingDirectory
    /\ [](fake_par \in fs)
    /\ [](Executing => \A f \in fs : CleanupName(f) => f \in RunFiles(form, run.uid))

\* a later run is under way after a run that wrote its parameter file into
\* the parent directory and was aborted
C11_Witness ==
    /\ Executing
    /\ \E f \in fs : Len(f) = 3 /\ f \notin RunFiles(form, run.uid)

----------------------------------------------------------------------------
(* combine_residuals on arbitrary frames *)

\* rows whose epochs 1 and 2 coincide once coerced to float64
Rows == [Date : {1, 2, 4}, Residual : {0, 2}, Uncertainty : {2}, Frequency : {2, 4}]

Perms(m) == {p \in [1..m -> 1..m] : \A i, j \in 1..m : i # j => p[i] # p[j]}

\* the frames cut out of a run of rows at the given end positions
Frames(flat, cuts) ==
    [k \in 1..Len(cuts) |->
        SubSeq(flat, (IF k = 1 THEN 0 ELSE cuts[k - 1]) + 1, cuts[k])]

InitCombine ==
    /\ \E n \in 0..MaxTotalRows, m \in 0..MaxSeries :
        \E flat \in [1..n -> Rows], cuts \in [1..m -> 0..n] :
            /\ \A k \in 1..m : k < m => cuts[k] <= cuts[k + 1]
            /\ IF m = 0 THEN n = 0 ELSE cuts[m] = n
            /\ data_list = Frames(flat, cuts)
    /\ combined = <<>>
    /\ synth_args = <<>>
    /\ synth_data = <<>>
    /\ SimOff
    /\ JsonIdle

\* combine_residuals(data_list)
CallCombine ==
    /\ combined = <<>>
    /\ combined' = <<[args |-> data_list, out |-> combine_residuals(data_list)]>>
    /\ data_list' = coerced_in_place(data_list)
    /\ UNCHANGED <<synth_args, synth_data>>

\* combine_residuals on the same frames in another order
CallPermuted ==
    /\ Len(combined) = 1
    /\ \E p \in Perms(Len(data_list)) :
        LET permuted == [k \in 1..Len(data_list) |-> data_list[p[k]]]
        IN  combined' = Append(combined,
                           [args |-> permuted, out |-> combine_residuals(permuted)])
    /\ UNCHANGED <<data_list, synth_args, synth_data>>

\* the returned frame sorted once more
SortAgain ==
    /\ Len(combined) = 2
    /\ ~combined[1].out.raised
    /\ combined' = Append(combined,
                      [args |-> <<combined[1].out.data>>,
                       out  |-> [raised |-> FALSE,
                                 data   |-> sort_values(combined[1].out.data)]])
    /\ UNCHANGED <<data_list, synth_args, synth_data>>

NextCombine ==
    /\ \/ CallCombine
       \/ CallPermuted
       \/ SortAgain
    /\ UNCHANGED <<simVars, jsonVars>>

SpecCombine == InitCombine /\ [][NextCombine]_vars

\* non-decreasing in (Date, Frequency)
NonDecreasing(df) ==
    \A i, j \in 1..Len(df) :
        i < j => \/ df[i].Date < df[j].Date
                 \/ df[i].Date = df[j].Date /\ df[i].Frequency <= df[j].Frequency

\* the rows of df with the sort key of row r, in their order in df
RowsWithKey(df, r) ==
    LET Same(x) == x.Date = r.Date /\ x.Frequency = r.Frequency
    IN  SelectSeq(df, Same)

\* out is the stable sort of cat by (Date, Frequency)
IsStableSortOf(out, cat) ==
    /\ Len(out) = Len(cat)
    /\ SeqBag(out) = SeqBag(cat)
    /\ NonDecreasing(out)
    /\ \A r \in Range(cat) : RowsWithKey(out, r) = RowsWithKey(cat, r)

\* C4: for every list of frames combine_residuals returns the stable sort,
\* by (Date, Frequency), of the concatenation of the (coerced) frames.
C4_StableSortOfConcatenation ==
    Len(combined) >= 1 =>
        /\ ~combined[1].out.raised
        /\ IsStableSortOf(combined[1].out.data,
                          pd_concat(coerced_in_place(combined[1].args)))

\* what holds of C4: the same for every list that holds at least one frame
CombineOfFramesIsStableSort ==
    (Len(combined) >= 1 /\ combined[1].args # <<>>) =>
        /\ ~combined[1].out.raised
        /\ IsStableSortOf(combined[1].out.data,
                          pd_concat(coerced_in_place(combined[1].args)))

\* C5: the frames in any other order give a result with the same rows, as
\* often, again non-decreasing in (Date, Frequency) (or the same exception);
\* sorting a returned frame again returns it unchanged.
C5_OrderOfFramesAndResort ==
    /\ Len(combined) >= 2 =>
          /\ combined[2].out.raised = combined[1].out.raised
          /\ SeqBag(combined[2].out.data) = SeqBag(combined[1].out.data)
          /\ NonDecreasing(combined[1].out.data)
          /\ NonDecreasing(combined[2].out.data)
    /\ Len(combined) >= 3 => combined[3].out.data = combined[1].out.data

\* two frames given in the other order, where the two results differ in the
\* order of rows with equal keys, and the first result has been sorted again
C5_Witness ==
    /\ Len(combined) = 3
    /\ combined[2].args # coerced_in_place(combined[1].args)
    /\ combined[2].out.data # combined[1].out.data

----------------------------------------------------------------------------
(* simulate_residuals_freq over the whole range of the sliders *)

avg_sn_max == 50

InitSynth ==
    /\ synth_args \in [X_days    : 5..cadence_max,
                       freq      : Range(frequency_options),
                       totaltime : 1..Min(MaxYears, 10),
                       avg_sn    : 5..avg_sn_max,
                       seed      : 1..NumSeeds]
    /\ synth_data = <<>>
    /\ data_list = <<>>
    /\ combined = <<>>
    /\ SimOff
    /\ JsonIdle

CallSimulateFreq ==
    /\ synth_data = <<>>
    /\ synth_data' = <<simulate_residuals_freq(synth_args.X_days, synth_args.freq,
                                               synth_args.totaltime, synth_args.avg_sn,
                                               synth_args.seed)>>
    /\ UNCHANGED <<synth_args, data_list, combined, simVars, jsonVars>>

NextSynth == CallSimulateFreq

SpecSynth == InitSynth /\ [][NextSynth]_vars

\* C9: the frame has floor(365.25 * totaltime / X_days) rows, every row
\* carries the requested frequency, and every uncertainty is above zero
\* and at most 1000.
C9_SeriesShape ==
    synth_data # <<>> =>
        LET d == synth_data[1]
            a == synth_args
        IN  /\ Len(d) * a.X_days * 100 <= 36525 * a.totaltime
            /\ (Len(d) + 1) * a.X_days * 100 > 36525 * a.totaltime
            /\ \A i \in 1..Len(d) :
                 /\ d[i].Frequency = a.freq
                 /\ d[i].Uncertainty > 0
                 /\ d[i].Uncertainty <= 1000000

\* the example of the specification (10 days, 1 year: 36 rows), with a draw
\* that np.clip raised to the floor
C9_Witness ==
    /\ synth_data # <<>>
    /\ synth_args.X_days = 10
    /\ synth_args.totaltime = 1
    /\ Len(synth_data[1]) = 36
    /\ \E i \in 1..36 : synth_data[1][i].Uncertainty = 1000000

----------------------------------------------------------------------------
(* The configuration builder: catalog and widgets *)

\* numbers keep their Python type: st.number_input returns an int for an
\* int default and a float for a float default (v is in tenths)
PyInt(n)   == [v |-> n * 10, float |-> FALSE]
PyFloat(t) == [v |-> t, float |-> TRUE]

Key(k, lo, hi) == [key |-> k, min_value |-> lo, max_value |-> hi]

\* dict items in insertion order
RECOMMENDED_VALUES ==
    [n \in {"Power Law Red Noise", "Power Law DM Noise", "EFAC", "EQUAD"} |->
        CASE n = "EFAC"  -> <<Key("global", PyInt(0 - 1), PyFloat(7)),
                              Key("per_flag", PyInt(0 - 1), PyFloat(7))>>
          [] n = "EQUAD" -> <<Key("global", PyInt(0 - 9), PyInt(0 - 3)),
                              Key("per_flag", PyInt(0 - 9), PyInt(0 - 3))>>
          [] OTHER       -> <<Key("amplitude", PyInt(0 - 18), PyInt(0 - 10)),
                              Key("spectral_index", PyInt(0), PyInt(7))>>]

Recommended(n, k) ==
    LET items == RECOMMENDED_VALUES[n]
    IN  items[CHOOSE i \in 1..Len(items) : items[i].key = k]

\* element_types of the two scripts
element_types(e) ==
    IF e = "JSON"
    THEN <<"Timing Model", "Power Law Red Noise", "Power Law DM Noise", "EFAC", "EQUAD">>
    ELSE <<"Power Law Red Noise", "Power Law DM Noise", "EFAC", "EQUAD", "Timing Model">>

\* a value typed into a number_input in place of its default
Typed(default) == [default EXCEPT !.v = @ - 20]

\* the include/fit/min/max widgets of one catalog sub-key
SubDefault(item) ==
    [include |-> TRUE, fit |-> TRUE, min_value |-> item.min_value, max_value |-> item.max_value]
SubEdited(item, i) ==
    [include |-> i # 1, fit |-> i = 1,
     min_value |-> Typed(item.min_value), max_value |-> item.max_value]

\* the widgets rendered for one element; fields whose widgets are not
\* rendered hold "", <<>>
TimingForm == [name |-> "Timing Model", model |-> "", bounds |-> <<>>, flag |-> "", sub |-> <<>>]

CatalogForms(n) ==
    LET items == RECOMMENDED_VALUES[n]
    IN  {[name |-> n, model |-> "", bounds |-> <<>>, flag |-> "",
          sub |-> [i \in 1..Len(items) |-> SubDefault(items[i])]],
         [name |-> n, model |-> "", bounds |-> <<>>, flag |-> "",
          sub |-> [i \in 1..Len(items) |-> SubEdited(items[i], i)]]}

ModelForms(n) ==
    LET g == Recommended(n, "global")
        f == Recommended(n, "per_flag")
    IN  {[name |-> n, model |-> "Global", flag |-> "", sub |-> <<>>,
          bounds |-> <<g.min_value, g.max_value>>],
         [name |-> n, model |-> "Global", flag |-> "", sub |-> <<>>,
          bounds |-> <<Typed(g.min_value), g.max_value>>],
         [name |-> n, model |-> "Per Flag", flag |-> "-fe", sub |-> <<>>,
          bounds |-> <<f.min_value, f.max_value>>],
         [name |-> n, model |-> "Per Flag", flag |-> "-be", sub |-> <<>>,
          bounds |-> <<f.min_value, Typed(f.max_value)>>]}

ElementForms(e) ==
    {TimingForm}
    \cup CatalogForms("Power Law Red Noise") \cup CatalogForms("Power Law DM Noise")
    \cup (IF e = "JSON" THEN ModelForms("EFAC") \cup ModelForms("EQUAD")
                        ELSE CatalogForms("EFAC") \cup CatalogForms("EQUAD"))

\* the widgets of a new element: the first option, the defaults
DefaultForm(e) ==
    LET n == element_types(e)[1]
    IN  IF n = "Timing Model" THEN TimingForm
        ELSE [name |-> n, model |-> "", bounds |-> <<>>, flag |-> "",
              sub |-> [i \in 1..Len(RECOMMENDED_VALUES[n]) |->
                          SubDefault(RECOMMENDED_VALUES[n][i])]]

DefaultWidgets(e) ==
    [root |-> "results/TNest-", use_original_errors |-> TRUE, num_tempo2_its |-> PyInt(1),
     sampler_id |-> "multinest", sample |-> TRUE, importance_sampling |-> PyInt(0),
     constant_efficiency |-> FALSE, efficiency |-> PyFloat(1), live_points |-> PyInt(4000),
     num_elements |-> 1, elements |-> <<DefaultForm(e)>>,
     file_name |-> "temponest_config.json"]

----------------------------------------------------------------------------
(* The configuration builder: the elements loop *)

Lower(n) == IF n = "EFAC" THEN "efac" ELSE "equad"

\* JSON/TempoNest_JSON.py lines 64-129
parameters_JSON(w) ==
    IF w.name \in {"EFAC", "EQUAD"}
    THEN IF w.model = "Global"
         THEN <<[name |-> "global",
                 description |-> "global scaling for " \o Lower(w.name) \o " error bars",
                 prior_type |-> IF w.name = "EFAC" THEN "uniform" ELSE "log_uniform",
                 include |-> TRUE, fit |-> TRUE,
                 min_value |-> w.bounds[1], max_value |-> w.bounds[2]]>>
         ELSE IF w.model = "Per Flag"
         THEN <<[name |-> "per_flag",
                 description |-> "per flag model for " \o Lower(w.name) \o " error bars",
                 prior_type |-> IF w.name = "EFAC" THEN "uniform" ELSE "log_uniform",
                 include |-> TRUE, fit |-> TRUE,
                 min_value |-> w.bounds[1], max_value |-> w.bounds[2],
                 flag |-> w.flag]>>
         ELSE <<>>
    ELSE IF w.name \in DOMAIN RECOMMENDED_VALUES
    THEN [i \in 1..Len(RECOMMENDED_VALUES[w.name]) |->
            LET param_name == RECOMMENDED_VALUES[w.name][i].key
            IN  [name |-> param_name,
                 prior_type |-> IF param_name \in {"amplitude", "global", "per_flag"}
                                THEN "log_uniform" ELSE "uniform",
                 include |-> w.sub[i].include, fit |-> w.sub[i].fit,
                 min_value |-> w.sub[i].min_value, max_value |-> w.sub[i].max_value]]
    ELSE <<>>

\* TempoNest_JSON.py lines 64-85
parameters_root(w) ==
    IF w.name \in DOMAIN RECOMMENDED_VALUES
    THEN [i \in 1..Len(RECOMMENDED_VALUES[w.name]) |->
            LET param_name == RECOMMENDED_VALUES[w.name][i].key
            IN  [name |-> param_name,
                 prior_type |-> IF param_name \in {"amplitude", "global", "per_flag"}
                                THEN "log_uniform" ELSE "uniform",
                 include |-> w.sub[i].include, fit |-> w.sub[i].fit,
                 min_value |-> w.sub[i].min_value, max_value |-> w.sub[i].max_value]]
    ELSE <<>>

\* (mutant) parameters = [] set once, before the loop over the elements
RECURSIVE elements_shared_list(_, _)
elements_shared_list(e, w) ==
    IF w.num_elements = 0 THEN <<>>
    ELSE LET k    == w.num_elements
             head == elements_shared_list(e, [w EXCEPT !.num_elements = k - 1])
             mine == IF e = "JSON" THEN parameters_JSON(w.elements[k])
                                   ELSE parameters_root(w.elements[k])
             sofar == IF head = <<>> THEN <<>> ELSE head[k - 1].parameters
         IN  Append(head, [name |-> w.elements[k].name, parameters |-> sofar \o mine])

\* lines 53-130 / 53-86: for i in range(num_elements): ... elements.append
build_elements(e, w) ==
    [i \in 1..w.num_elements |->
        [name       |-> w.elements[i].name,
         parameters |-> IF e = "JSON" THEN parameters_JSON(w.elements[i])
                                      ELSE parameters_root(w.elements[i])]]

\* the config dict of the Generate JSON branch
build_config(e, w) ==
    [globals  |-> [root |-> w.root, use_original_errors |-> w.use_original_errors,
                   num_tempo2_its |-> w.num_tempo2_its],
     sampler  |-> [id |-> w.sampler_id, sample |-> w.sample,
                   importance_sampling |-> w.importance_sampling,
                   constant_efficiency |-> w.constant_efficiency,
                   efficiency |-> w.efficiency, live_points |-> w.live_points],
     elements |-> build_elements(e, w)]

----------------------------------------------------------------------------
(* json.dumps(config, indent=4): the lines of the text *)

Quoted(str) == "\"" \o str \o "\""

py_bool(b) == IF b THEN "true" ELSE "false"

\* an int prints without, a float with its decimal
py_number(x) ==
    LET a == IF x.v < 0 THEN 0 - x.v ELSE x.v
    IN  (IF x.v < 0 THEN "-" ELSE "")
        \o ToString(a \div 10)
        \o (IF x.float THEN "." \o ToString(a % 10) ELSE "")

Indent(n) == [k \in 0..5 |-> CASE k = 0 -> ""
                               [] k = 1 -> "    "
                               [] k = 2 -> "        "
                               [] k = 3 -> "            "
                               [] k = 4 -> "                "
                               [] OTHER -> "                    "][n]

Comma(last) == IF last THEN "" ELSE ","

Member(n, key, text, last) == Indent(n) \o Quoted(key) \o ": " \o text \o Comma(last)

\* the keys of a parameter dict, in the order the scripts insert them
parameter_keys ==
    <<"name", "description", "prior_type", "include", "fit", "min_value", "max_value", "flag">>

parameter_text(p, k) ==
    CASE k \in {"name", "description", "prior_type", "flag"} -> Quoted(p[k])
      [] k \in {"include", "fit"}                             -> py_bool(p[k])
      [] OTHER                                                -> py_number(p[k])

dumps_parameter(p, last) ==
    LET Has(k) == k \in DOMAIN p
        keys   == SelectSeq(parameter_keys, Has)
    IN  <<Indent(4) \o "{">>
        \o [i \in 1..Len(keys) |->
               Member(5, keys[i], parameter_text(p, keys[i]), i = Len(keys))]
        \o <<Indent(4) \o "}" \o Comma(last)>>

RECURSIVE dumps_parameters(_)
dumps_parameters(ps) ==
    IF ps = <<>> THEN <<>>
    ELSE dumps_parameter(Head(ps), Len(ps) = 1) \o dumps_parameters(Tail(ps))

dumps_element(el, last) ==
    <<Indent(2) \o "{", Member(3, "name", Quoted(el.name), FALSE)>>
    \o (IF el.parameters = <<>>
        THEN <<Member(3, "parameters", "[]", TRUE)>>
        ELSE <<Indent(3) \o Quoted("parameters") \o ": [">>
             \o dumps_parameters(el.parameters)
             \o <<Indent(3) \o "]">>)
    \o <<Indent(2) \o "}" \o Comma(last)>>

RECURSIVE dumps_elements(_)
dumps_elements(els) ==
    IF els = <<>> THEN <<>>
    ELSE dumps_element(Head(els), Len(els) = 1) \o dumps_elements(Tail(els))

json_dumps(config) ==
    <<"{",
      Indent(1) \o Quoted("globals") \o ": {",
      Member(2, "root", Quoted(config.globals.root), FALSE),
      Member(2, "use_original_errors", py_bool(config.globals.use_original_errors), FALSE),
      Member(2, "num_tempo2_its", py_number(config.globals.num_tempo2_its), TRUE),
      Indent(1) \o "},",
      Indent(1) \o Quoted("sampler") \o ": {",
      Member(2, "id", Quoted(config.sampler.id), FALSE),
      Member(2, "sample", py_bool(config.sampler.sample), FALSE),
      Member(2, "importance_sampling", py_number(config.sampler.importance_sampling), FALSE),
      Member(2, "constant_efficiency", py_bool(config.sampler.constant_efficiency), FALSE),
      Member(2, "efficiency", py_number(config.sampler.efficiency), FALSE),
      Member(2, "live_points", py_number(config.sampler.live_points), TRUE),
      Indent(1) \o "},">>
    \o (IF config.elements = <<>>
        THEN <<Member(1, "elements", "[]", TRUE)>>
        ELSE <<Indent(1) \o Quoted("elements") \o ": [">>
             \o dumps_elements(config.elements)
             \o <<Indent(1) \o "]">>)
    \o <<"}">>

----------------------------------------------------------------------------
(* The configuration builder: one execution of the script per interaction *)

BlankShown == [json |-> <<>>, download |-> <<>>, success |-> FALSE]

\* JSON/TempoNest_JSON.py lines 132-164
execute_JSON(w, pressed) ==
    LET stored == IF pressed THEN <<json_dumps(build_config("JSON", w))>> ELSE session_json
    IN  /\ session_json' = stored
        /\ disk' = disk
        /\ shown' = IF stored # <<>>
                    THEN [json     |-> stored,
                          download |-> <<[data |-> stored[1], file_name |-> w.file_name]>>,
                          success  |-> FALSE]
                    ELSE BlankShown

\* TempoNest_JSON.py lines 88-109
execute_root(w, pressed) ==
    /\ session_json' = session_json
    /\ disk' = IF pressed THEN <<json_dumps(build_config("root", w))>> ELSE disk
    /\ shown' = IF pressed
                THEN [json     |-> <<json_dumps(build_config("root", w))>>,
                      download |-> <<>>,
                      success  |-> TRUE]
                ELSE BlankShown

Execute(w, pressed) ==
    /\ clicks < MaxClicks
    /\ clicks' = clicks + 1
    /\ widgets' = w
    /\ entry' = entry
    /\ IF entry = "JSON" THEN execute_JSON(w, pressed) ELSE execute_root(w, pressed)
    /\ last_config' = IF pressed
                      THEN <<[widgets |-> w, config |-> build_config(entry, w)]>>
                      ELSE last_config

InitJSON ==
    /\ entry \in {"JSON", "root"}
    /\ widgets = DefaultWidgets(entry)
    /\ session_json = <<>>
    /\ disk = <<>>
    /\ shown = BlankShown
    /\ clicks = 0
    /\ last_config = <<>>
    /\ SimOff
    /\ CombIdle

\* "Number of Elements" is changed: elements beyond the old number get the
\* widgets of a new element
EditNumElements ==
    \E n \in 1..MaxElements :
        /\ n # widgets.num_elements
        /\ Execute([widgets EXCEPT
                      !.num_elements = n,
                      !.elements = [i \in 1..n |->
                                      IF i <= Len(@) THEN @[i] ELSE DefaultForm(entry)]],
                   FALSE)

\* the widgets of one element are changed
EditElement ==
    \E i \in 1..widgets.num_elements, f \in ElementForms(entry) :
        /\ f # widgets.elements[i]
        /\ Execute([widgets EXCEPT !.elements[i] = f], FALSE)

\* the Generate JSON button is pressed
Generate == Execute(widgets, TRUE)

NextJSON ==
    /\ \/ EditNumElements
       \/ EditElement
       \/ Generate
    /\ UNCHANGED <<simVars, combVars>>

SpecJSON == InitJSON /\ [][NextJSON]_vars

----------------------------------------------------------------------------
(* The configuration builder: properties *)

EfacEquadShape(w, el) ==
    /\ Len(el.parameters) = 1
    /\ LET p == el.parameters[1]
       IN  /\ p.name \in {"global", "per_flag"}
           /\ w.model = "Global" => p.name = "global"
           /\ w.model = "Per Flag" => p.name = "per_flag"
           /\ p.prior_type = IF w.name = "EFAC" THEN "uniform" ELSE "log_uniform"
           /\ ("flag" \in DOMAIN p) <=> (p.name = "per_flag")
           /\ p.name = "per_flag" => p.flag = w.flag
           /\ (w.name = "EFAC" /\ p.name = "global"
                 /\ w.bounds = <<Recommended("EFAC", "global").min_value,
                                 Recommended("EFAC", "global").max_value>>) =>
                 /\ py_number(p.min_value) = "-1"
                 /\ py_number(p.max_value) = "0.7"

\* C6: each script builds, for an element named EFAC or EQUAD, exactly one
\* parameter, named "global" or "per_flag" after the chosen mode, uniform
\* for EFAC and log_uniform for EQUAD, with the flag string on per_flag
\* only; with the default bounds EFAC Global has the bounds [-1, 0.7].
C6_OneParameterForEfacEquad ==
    entry # "none" =>
        \A i \in 1..widgets.num_elements :
            widgets.elements[i].name \in {"EFAC", "EQUAD"} =>
                EfacEquadShape(widgets.elements[i], build_elements(entry, widgets)[i])

\* what holds of C6: the same of JSON/TempoNest_JSON.py alone
EfacEquadShapeInSessionScript ==
    entry = "JSON" =>
        \A i \in 1..widgets.num_elements :
            widgets.elements[i].name \in {"EFAC", "EQUAD"} =>
                EfacEquadShape(widgets.elements[i], build_elements(entry, widgets)[i])

\* C7: the generated config has as many elements as the form asks for, in
\* the order of the form; a Timing Model element has no parameters; a Power
\* Law Red Noise or DM Noise element has the two parameters amplitude
\* (log_uniform) and spectral_index (uniform), in this order.
C7_ElementsOfGeneratedConfig ==
    last_config # <<>> =>
        LET w == last_config[1].widgets
            c == last_config[1].config
        IN  /\ Len(c.elements) = w.num_elements
            /\ \A i \in 1..Len(c.elements) :
                 LET el == c.elements[i]
                 IN  /\ el.name = w.elements[i].name
                     /\ el.name = "Timing Model" => el.parameters = <<>>
                     /\ el.name \in {"Power Law Red Noise", "Power Law DM Noise"} =>
                          /\ Len(el.parameters) = 2
                          /\ el.parameters[1].name = "amplitude"
                          /\ el.parameters[1].prior_type = "log_uniform"
                          /\ el.parameters[2].name = "spectral_index"
                          /\ el.parameters[2].prior_type = "uniform"

\* a generated config of two elements: a noise element, then Timing Model
C7_Witness ==
    /\ last_config # <<>>
    /\ Len(last_config[1].config.elements) = 2
    /\ last_config[1].config.elements[1].name \in {"Power Law Red Noise", "Power Law DM Noise"}
    /\ last_config[1].config.elements[2].name = "Timing Model"

\* C8: nothing is stored, written or shown before Generate is pressed; from
\* then on every execution shows the text generated last and offers it (as
\* a download or as the file on disk), and the text is that of the last
\* Generate whatever the form holds now.
C8_BlobStaysAvailable ==
    entry # "none" =>
        IF last_config = <<>>
        THEN session_json = <<>> /\ disk = <<>> /\ shown = BlankShown
        ELSE LET blob == json_dumps(last_config[1].config)
             IN  /\ session_json = <<blob>> \/ disk = <<blob>>
                 /\ shown.json = <<blob>>
                 /\ \/ shown.download # <<>> /\ shown.download[1].data = blob
                    \/ disk = <<blob>>

\* what holds of C8: the same of JSON/TempoNest_JSON.py alone
BlobStaysAvailableInSessionScript == entry = "JSON" => C8_BlobStaysAvailable

====
